---------------------------- MODULE Spec2Model ----------------------------
(***************************************************************************)
(* A model of the stock analysis package: the shared data preparation of   *)
(* BaseAnalyzer, the static return correlation and its strong-pair report, *)
(* the k-means clustering engine with its model cache, and the three       *)
(* rolling-window operations.                                              *)
(*                                                                         *)
(* Numbers.  A numeric cell is an exact rational <<n, d>> with d > 0 in    *)
(* lowest terms; the undefined value (pandas' NaN) is <<0, 0>>.  A value   *)
(* the code obtains through a square root is held by its signed square:    *)
(* a correlation coefficient c as sign(c)*c^2, a volatility v as v^2.      *)
(* Both encodings keep order, sign, zero and definedness.                  *)
(*                                                                         *)
(* Tables.  A pandas Series is [index, values], a DataFrame is             *)
(* [index, names, data]: index the sequence of row labels, names the       *)
(* columns in order, data a function from column name to its values.      *)
(***************************************************************************)
EXTENDS Integers, Sequences, FiniteSets, TLC

VARIABLES
    csv,            \* the raw price tables on disk, one per instrument, in dict order
    stock_data,     \* the dict handed to the analyzers, in insertion order
    op,             \* the operation that ran last
    out,            \* what that operation returned (or the error it raised)
    returns,        \* the return series that operation derived, per instrument
    kmeans_models,  \* ClusterAnalyzer.kmeans_models: the cache of fitted models
    max_clusters,   \* ClusterAnalyzer.max_clusters: the last cluster count of a sweep
    matrix,         \* the correlation matrix handed to the strong-pair report
    collector       \* DataCollector: where a call of collect_data stands

vars == <<csv, stock_data, op, out, returns, kmeans_models, max_clusters, matrix,
          collector>>

\* no call of the collector under way
NoCall == [pc |-> "idle"]

\* ClusterAnalyzer.__init__(max_clusters=10)
DefaultMaxClusters == 10

---------------------------------------------------------------------------
(* Bounds of the model.                                                    *)

\* the longest raw price table, in rows
MaxRows == 3
\* the largest rolling window tried
MaxWindow == 3

\* raw trade_date values as the provider writes them (YYYYMMDD)
RawDates == {20240130, 20240131, 20240201}
\* closing prices
Closes == {1, 2}

---------------------------------------------------------------------------
(* Exact rationals with an undefined value.                                *)

NaN == <<0, 0>>

IsNaN(x) == x[2] = 0

Abs(n) == IF n < 0 THEN -n ELSE n

RECURSIVE GCD(_, _)
GCD(a, b) == IF b = 0 THEN a ELSE GCD(b, a % b)

Rat(n, d) ==
    IF d = 0 THEN NaN
    ELSE LET g == GCD(Abs(n), Abs(d))
             s == IF d < 0 THEN -1 ELSE 1
         IN  <<(s * n) \div g, (s * d) \div g>>

Num(n) == <<n, 1>>

RAdd(x, y) == IF IsNaN(x) \/ IsNaN(y) THEN NaN
              ELSE Rat(x[1] * y[2] + y[1] * x[2], x[2] * y[2])

RSub(x, y) == IF IsNaN(x) \/ IsNaN(y) THEN NaN
              ELSE Rat(x[1] * y[2] - y[1] * x[2], x[2] * y[2])

RMul(x, y) == IF IsNaN(x) \/ IsNaN(y) THEN NaN
              ELSE Rat(x[1] * y[1], x[2] * y[2])

\* x / y; the prices and volumes of the model are positive, and 0/0 is undefined
RDiv(x, y) == IF IsNaN(x) \/ IsNaN(y) THEN NaN
              ELSE Rat(x[1] * y[2], x[2] * y[1])

RLess(x, y) == x[1] * y[2] < y[1] * x[2]

RAbs(x) == <<Abs(x[1]), x[2]>>

RECURSIVE RSum(_)
RSum(s) == IF s = <<>> THEN Num(0) ELSE RAdd(Head(s), RSum(Tail(s)))

---------------------------------------------------------------------------
(* Sequences.                                                              *)

Range(s) == {s[i] : i \in DOMAIN s}

SeqsUpTo(S, n) == UNION {[1..k -> S] : k \in 1..n}

IsUnique(s) == \A i, j \in DOMAIN s : s[i] = s[j] => i = j

\* the positions of s at which P holds, in order
RECURSIVE Keep(_, _)
Keep(s, keep) ==
    IF s = <<>> THEN <<>>
    ELSE LET rest == Keep(Tail(s), [i \in 1..(Len(s) - 1) |-> keep[i + 1]])
         IN  IF keep[1] THEN <<Head(s)>> \o rest ELSE rest

\* the permutations of 1..n
Perms(n) == {p \in [1..n -> 1..n] : \A i, j \in 1..n : p[i] = p[j] => i = j}

---------------------------------------------------------------------------
(* pandas primitives.                                                      *)

\* the days of 2024 before month m (January to March)
DaysBefore(m) == IF m = 1 THEN 0 ELSE IF m = 2 THEN 31 ELSE 60

\* pd.to_datetime on a YYYYMMDD date: the day, counted from 2024-01-01 = 1
\* (a value that is a day already, as load_stock_data leaves it, is kept)
to_datetime(d) ==
    IF d < 10000 THEN d ELSE DaysBefore((d \div 100) % 100) + (d % 100)

\* a fill that leaves every gap as it is
no_fill(v) == v

\* Series.fillna(method='ffill'): the last valid value is carried forward
RECURSIVE ffill(_)
ffill(v) ==
    IF Len(v) <= 1 THEN v
    ELSE LET front == ffill(SubSeq(v, 1, Len(v) - 1))
             last  == v[Len(v)]
         IN  Append(front, IF IsNaN(last) THEN front[Len(front)] ELSE last)

\* Series.fillna(0)
fillna0(v) == [i \in DOMAIN v |-> IF IsNaN(v[i]) THEN Num(0) ELSE v[i]]

\* Series.pct_change(): gaps are padded first (fill_method='pad'), then
\* v[t] / v[t-1] - 1, with no value in the first row
pct_change(v) ==
    LET p == ffill(v)
    IN  [t \in DOMAIN v |->
            IF t = 1 THEN NaN ELSE RSub(RDiv(p[t], p[t - 1]), Num(1))]

\* Series.dropna()
dropna(s) ==
    LET keep == [i \in DOMAIN s.values |-> ~IsNaN(s.values[i])]
    IN  [index |-> Keep(s.index, keep), values |-> Keep(s.values, keep)]

\* the orders in which a sort may leave the rows: every order that is
\* ascending in the key (rows with equal keys in either order)
SortOrders(key) ==
    {p \in Perms(Len(key)) :
        \A i, j \in 1..Len(key) : i < j => key[p[i]] <= key[p[j]]}

\* the value a Series holds at label l (the label occurs once), else NaN
ValueAt(s, l) ==
    IF \E i \in DOMAIN s.index : s.index[i] = l
    THEN s.values[CHOOSE i \in DOMAIN s.index : s.index[i] = l]
    ELSE NaN

EmptyFrame == [index |-> <<>>, names |-> <<>>, data |-> <<>>]

\* frame[name] = series.  An empty frame takes the index of the first
\* non-empty series; later series are reindexed to the frame's index, which
\* fails when the series has a duplicated label.
CanSetItem(frame, s) ==
    \/ Len(frame.index) = 0
    \/ s.index = frame.index
    \/ IsUnique(s.index)

SetItem(frame, name, s) ==
    LET adopt  == Len(frame.index) = 0 /\ Len(s.index) > 0
        index  == IF adopt THEN s.index ELSE frame.index
        old    == [c \in Range(frame.names) |->
                     IF adopt THEN [i \in DOMAIN index |-> NaN] ELSE frame.data[c]]
        column == IF s.index = index THEN s.values
                  ELSE [i \in DOMAIN index |-> ValueAt(s, index[i])]
        names  == IF name \in Range(frame.names) THEN frame.names
                  ELSE Append(frame.names, name)
    IN  [index |-> index,
         names |-> names,
         data  |-> [c \in Range(names) |-> IF c = name THEN column ELSE old[c]]]

---------------------------------------------------------------------------
(* BaseAnalyzer.                                                           *)

Column(df, c) == [index |-> df.index, values |-> df.data[c]]

Without(names, c) == SelectSeq(names, LAMBDA n : n # c)

\* A name bound to a table: alias tells whether the name still stands for
\* the caller's own object, which every in-place step then changes too.
Arg(df) == [alias |-> TRUE, table |-> df]

\* no copy: the name keeps standing for the caller's object
no_copy(ref) == ref

\* DataFrame.copy(): a new object with the same content
copy(ref) == [alias |-> FALSE, table |-> ref.table]

\* the caller's table once the in-place steps on ref have made it worked
CallerTable(df, ref, worked) == IF ref.alias THEN worked ELSE df

\* a validation that looks for the date column only
validate_date_only(df, required_cols) == "trade_date" \in Range(df.names)

_validate_dataframe(df, required_cols) == required_cols \subseteq Range(df.names)

\* _prepare_data once the required columns are known to be there: the date
\* column is parsed and becomes the index, the rows are sorted by it (in the
\* order p), and every numeric column is forward-filled
PrepareWith(df, p) ==
    LET dates == [i \in DOMAIN df.index |-> to_datetime(df.data["trade_date"][i])]
        cols  == Without(df.names, "trade_date")
    IN  [index |-> [i \in DOMAIN dates |-> dates[p[i]]],
         names |-> cols,
         data  |-> [c \in Range(cols) |->
                      ffill([i \in DOMAIN dates |-> df.data[c][p[i]]])]]

\* the tables _prepare_data may return for df; none when it raises ValueError
_prepare_data(df) ==
    IF ~_validate_dataframe(df, {"trade_date", "close"}) THEN {}
    ELSE {PrepareWith(df, p) :
            p \in SortOrders([i \in DOMAIN df.index |->
                                to_datetime(df.data["trade_date"][i])])}

\* _calculate_returns without the fillna(0): the first return stays undefined
calculate_returns_unfilled(df) ==
    [index |-> df.index, values |-> pct_change(df.data["close"])]

_calculate_returns(df) ==
    [index |-> df.index, values |-> fillna0(pct_change(df.data["close"]))]

---------------------------------------------------------------------------
(* Statistics.                                                             *)

\* the rows at which both x and y hold a value
BothValid(x, y) == [i \in DOMAIN x |-> ~IsNaN(x[i]) /\ ~IsNaN(y[i])]

Mean(v) == RDiv(RSum(v), Num(Len(v)))

\* the sum of (x - mean x) * (y - mean y)
CoMoment(x, y) ==
    RSum([i \in DOMAIN x |-> RMul(RSub(x[i], Mean(x)), RSub(y[i], Mean(y)))])

\* the mean of the squares, the mean not taken off
mean_square(v) == RDiv(RSum([i \in DOMAIN v |-> RMul(v[i], v[i])]), Num(Len(v) - 1))

\* the sample variance (ddof = 1); undefined for a single observation
Variance(v) == RDiv(CoMoment(v, v), Num(Len(v) - 1))

LCM(a, b) == (a \div GCD(a, b)) * b

RECURSIVE CommonDenominator(_)
CommonDenominator(v) ==
    IF v = <<>> THEN 1 ELSE LCM(Head(v)[2], CommonDenominator(Tail(v)))

RECURSIVE IntSum(_)
IntSum(z) == IF z = <<>> THEN 0 ELSE Head(z) + IntSum(Tail(z))

\* the deviations of v from its mean, times Len(v) and the common
\* denominator of v: integers in the proportions of the deviations
Centred(v) ==
    LET d == CommonDenominator(v)
        z == [i \in DOMAIN v |-> v[i][1] * (d \div v[i][2])]
    IN  [i \in DOMAIN z |-> Len(z) * z[i] - IntSum(z)]

Dot(x, y) == IntSum([i \in DOMAIN x |-> x[i] * y[i]])

\* Pearson's coefficient of the rows where both series hold a value, as
\* its signed square; undefined with fewer than min_periods such rows or
\* when either series is constant on them (0/0).  The coefficient does not
\* change when a series is multiplied by a positive number, so it is taken
\* from the integer deviations.
Pearson(x, y, min_periods) ==
    LET keep == BothValid(x, y)
        a    == Centred(Keep(x, keep))
        b    == Centred(Keep(y, keep))
        cov  == Dot(a, b)
        sq   == Rat(cov * cov, Dot(a, a) * Dot(b, b))
    IN  IF Len(a) < min_periods \/ Len(a) = 0 THEN NaN
        ELSE IF Dot(a, a) = 0 \/ Dot(b, b) = 0 THEN NaN
        ELSE IF cov < 0 THEN <<-sq[1], sq[2]>> ELSE sq

\* DataFrame.corr(): pairwise-complete Pearson, min_periods = 1
corr(frame) ==
    [a \in Range(frame.names), b \in Range(frame.names) |->
        Pearson(frame.data[a], frame.data[b], 1)]

\* the trailing window of v that ends at row t
Window(v, t, window) == SubSeq(v, t - window + 1, t)

\* a rolling variance that already reports on a window one row short
rolling_var_short(v, window) ==
    [t \in DOMAIN v |->
        IF t < window - 1 \/ t < 2 THEN NaN
        ELSE LET w == SubSeq(v, IF t < window THEN 1 ELSE t - window + 1, t)
             IN  IF \E i \in DOMAIN w : IsNaN(w[i]) THEN NaN ELSE Variance(w)]

\* Series.rolling(window).std(), squared: the variance of each full window
rolling_var(v, window) ==
    [t \in DOMAIN v |->
        IF t < window THEN NaN
        ELSE LET w == Window(v, t, window)
             IN  IF \E i \in DOMAIN w : IsNaN(w[i]) THEN NaN ELSE Variance(w)]

\* Series.rolling(window).corr(other): Pearson over each full window
rolling_corr(x, y, window) ==
    [t \in DOMAIN x |->
        IF t < window THEN NaN
        ELSE Pearson(Window(x, t, window), Window(y, t, window), window)]

---------------------------------------------------------------------------
(* The dict of instruments.  An entry is [name, df]; Python dicts keep     *)
(* insertion order, so the dict is a sequence of entries.                  *)

Ok(v) == [status |-> "ok", value |-> v]

Raised(e) == [status |-> "error", error |-> e]

None == [status |-> "none"]

\* df with its rows in the order p (the row labels move with the rows)
Reorder(df, p) ==
    [index |-> [i \in DOMAIN df.index |-> df.index[p[i]]],
     names |-> df.names,
     data  |-> [c \in Range(df.names) |->
                  [i \in DOMAIN df.index |-> df.data[c][p[i]]]]]

\* main.load_stock_data on one table that has a trade_date column: the
\* dates are parsed and the rows sorted by date
LoadedWith(df, p) ==
    LET parsed == [df EXCEPT !.data["trade_date"] =
                      [i \in DOMAIN df.index |-> to_datetime(df.data["trade_date"][i])]]
    IN  Reorder(parsed, p)

LoadedTables(df) ==
    {LoadedWith(df, p) :
        p \in SortOrders([i \in DOMAIN df.index |->
                            to_datetime(df.data["trade_date"][i])])}

\* main.load_stock_data: a table that cannot be loaded (no trade_date
\* column) is reported and left out of the dict
Loadable(files) == SelectSeq(files, LAMBDA e : "trade_date" \in Range(e.df.names))

load_stock_data(files) ==
    LET ok == Loadable(files)
    IN  {[i \in DOMAIN ok |-> [name |-> ok[i].name, df |-> t[i]]] :
            t \in {u \in [DOMAIN ok -> UNION {LoadedTables(ok[i].df) : i \in DOMAIN ok}] :
                     \A i \in DOMAIN ok : u[i] \in LoadedTables(ok[i].df)}}

\* one prepared table per instrument, when _prepare_data accepts them all
PreparedChoices(sd) ==
    {u \in [DOMAIN sd -> UNION {_prepare_data(sd[i].df) : i \in DOMAIN sd}] :
        \A i \in DOMAIN sd : u[i] \in _prepare_data(sd[i].df)}

AllPreparable(sd) == \A i \in DOMAIN sd : _prepare_data(sd[i].df) # {}

\* the caller's table after _prepare_data(df) has returned prepared: the
\* steps of lines 83-88 work in place on the copy of line 75
PrepareLeaves(df, prepared) == CallerTable(df, copy(Arg(df)), prepared)

\* the instruments a loop over sd prepares before _prepare_data raises
Preparable(sd) ==
    SubSeq(sd, 1, IF AllPreparable(sd) THEN Len(sd)
                  ELSE (CHOOSE i \in DOMAIN sd :
                           /\ _prepare_data(sd[i].df) = {}
                           /\ \A j \in 1..(i - 1) : _prepare_data(sd[j].df) # {}) - 1)

\* the caller's dict after a loop that has prepared the first Len(prep)
\* instruments and then worked on the prepared tables in place
AfterPrepare(sd, prep, worked) ==
    [i \in DOMAIN sd |->
        IF i <= Len(prep)
        THEN [name |-> sd[i].name, df |-> PrepareLeaves(sd[i].df, worked[i])]
        ELSE sd[i]]

\* frame[names[1]] = series[1]; frame[names[2]] = series[2]; ...
RECURSIVE Assemble(_, _, _)
Assemble(frame, names, series) ==
    IF series = <<>> THEN Ok(frame)
    ELSE IF ~CanSetItem(frame, Head(series)) THEN Raised("ValueError")
    ELSE Assemble(SetItem(frame, Head(names), Head(series)), Tail(names), Tail(series))

NamesOf(sd) == [i \in DOMAIN sd |-> sd[i].name]

\* what an operation derived for one instrument: the close prices it read
\* and the return series it built from them
Derived(name, prices, series) == [name |-> name, prices |-> prices, series |-> series]

---------------------------------------------------------------------------
(* CorrelationAnalyzer.calculate_returns_correlation (and the script's     *)
(* analyze_correlation, which computes the matrix the same way).           *)

CorrelationReturns(df) ==
    dropna([index |-> df.index, values |-> pct_change(df.data["close"])])

\* df['return'] = df['close'].pct_change(), in place on the copy of line 28
WithReturn(df) ==
    [index |-> df.index,
     names |-> IF "return" \in Range(df.names) THEN df.names ELSE Append(df.names, "return"),
     data  |-> [c \in Range(df.names) \cup {"return"} |->
                  IF c = "return" THEN pct_change(df.data["close"]) ELSE df.data[c]]]

\* the instruments the loop of lines 27-30 gets to: it stops at the first
\* without a close column, or at the first whose series the frame refuses
Reached(sd) ==
    LET Fails(i) ==
            \/ "close" \notin Range(sd[i].df.names)
            \/ Assemble(EmptyFrame, NamesOf(SubSeq(sd, 1, i)),
                        [j \in 1..i |-> CorrelationReturns(sd[j].df)]).status = "error"
    IN  IF \E i \in DOMAIN sd : Fails(i)
        THEN CHOOSE i \in DOMAIN sd : Fails(i) /\ \A j \in 1..(i - 1) : ~Fails(j)
        ELSE Len(sd)

\* the caller's dict after calculate_returns_correlation
AfterCorrelation(sd) ==
    [i \in DOMAIN sd |->
        IF i <= Reached(sd) /\ "close" \in Range(sd[i].df.names)
        THEN [name |-> sd[i].name,
              df   |-> CallerTable(sd[i].df, copy(Arg(sd[i].df)), WithReturn(sd[i].df))]
        ELSE sd[i]]

calculate_returns_correlation(sd) ==
    IF \E i \in DOMAIN sd : "close" \notin Range(sd[i].df.names) THEN Raised("KeyError")
    ELSE LET built == Assemble(EmptyFrame, NamesOf(sd),
                               [i \in DOMAIN sd |-> CorrelationReturns(sd[i].df)])
         IN  IF built.status = "error" THEN built
             ELSE Ok([names |-> built.value.names,
                      frame |-> built.value,
                      corr  |-> corr(built.value)])

---------------------------------------------------------------------------
(* TimeWindowAnalyzer.                                                     *)

\* the days of a trading year: volatility is annualised by sqrt(252)
TradingDays == 252

\* the result of an operation that swallowed an exception: a warning and
\* an empty DataFrame
Warned == [status |-> "warned", value |-> EmptyFrame]

\* DataFrame.dropna(): the rows in which every column holds a value
DropNaRows(frame) ==
    LET keep == [i \in DOMAIN frame.index |->
                   \A c \in Range(frame.names) : ~IsNaN(frame.data[c][i])]
    IN  [index |-> Keep(frame.index, keep),
         names |-> frame.names,
         data  |-> [c \in Range(frame.names) |-> Keep(frame.data[c], keep)]]

\* DataFrame.empty: no rows or no columns
IsEmpty(frame) == Len(frame.index) = 0 \/ Len(frame.names) = 0

\* DataFrame.rolling(window).corr(): one series per ordered pair of columns
PairwiseRollingCorr(frame, window) ==
    [index |-> frame.index,
     names |-> frame.names,
     data  |-> [pair \in Range(frame.names) \X Range(frame.names) |->
                  rolling_corr(frame.data[pair[1]], frame.data[pair[2]], window)]]

\* prep: the prepared table of every instrument
calculate_rolling_correlation(sd, prep, window) ==
    IF ~AllPreparable(sd) THEN Warned
    ELSE LET built == Assemble(EmptyFrame, NamesOf(sd),
                               [i \in DOMAIN sd |-> _calculate_returns(prep[i])])
         IN  IF built.status = "error" THEN Warned
             ELSE IF IsEmpty(DropNaRows(built.value)) THEN Warned
             ELSE Ok(PairwiseRollingCorr(DropNaRows(built.value), window))

\* returns.rolling(window).std() * sqrt(252), squared
Volatility(df, window) ==
    LET var == rolling_var(_calculate_returns(df).values, window)
    IN  [index |-> df.index,
         values |-> [t \in DOMAIN var |-> RMul(var[t], Num(TradingDays))]]

analyze_volatility(sd, prep, window) ==
    IF ~AllPreparable(sd) THEN Raised("ValueError")
    ELSE Assemble(EmptyFrame, NamesOf(sd),
                  [i \in DOMAIN sd |-> Volatility(prep[i], window)])

\* the column the volume is read from: 'volume', else a copy of 'vol'
HasVolume(df) == "volume" \in Range(df.names) \/ "vol" \in Range(df.names)

VolumeOf(df) == IF "volume" \in Range(df.names) THEN df.data["volume"] ELSE df.data["vol"]

\* df['volume'] = df['vol'] when there is no volume column, in place on the
\* prepared table
AddVolume(df) ==
    IF "volume" \in Range(df.names) \/ "vol" \notin Range(df.names) THEN df
    ELSE [index |-> df.index,
          names |-> Append(df.names, "volume"),
          data  |-> [c \in Range(df.names) \cup {"volume"} |->
                       IF c = "volume" THEN df.data["vol"] ELSE df.data[c]]]

VolumePriceCorr(df, window) ==
    [index  |-> df.index,
     values |-> rolling_corr(_calculate_returns(df).values,
                             pct_change(VolumeOf(df)), window)]

\* the positions of the instruments that have a volume column, in order
RECURSIVE WithVolume(_, _)
WithVolume(prep, i) ==
    IF i > Len(prep) THEN <<>>
    ELSE (IF HasVolume(prep[i]) THEN <<i>> ELSE <<>>) \o WithVolume(prep, i + 1)

analyze_volume_price_correlation(sd, prep, window) ==
    IF ~AllPreparable(sd) THEN Raised("ValueError")
    ELSE LET has == WithVolume(prep, 1)
         IN  Assemble(EmptyFrame,
                      [k \in DOMAIN has |-> sd[has[k]].name],
                      [k \in DOMAIN has |-> VolumePriceCorr(prep[has[k]], window)])

---------------------------------------------------------------------------
(* ClusterAnalyzer.prepare_data.                                           *)

\* merged_data.pct_change().fillna(0)
ReturnsMatrix(merged) ==
    [merged EXCEPT !.data = [c \in Range(merged.names) |->
                               fillna0(pct_change(merged.data[c]))]]

\* StandardScaler.fit_transform on the transposed matrix: every date is
\* centred on its mean over the instruments and divided by its (population)
\* standard deviation, or by 1 when that is 0.  Held as the signed square.
Standardize(frame) ==
    LET n       == Len(frame.names)
        col(t)  == [k \in 1..n |-> frame.data[frame.names[k]][t]]
        dev(c, t) == RSub(frame.data[c][t], Mean(col(t)))
        var(t)  == RDiv(CoMoment(col(t), col(t)), Num(n))
        z2(c, t) == IF var(t)[1] = 0 THEN RMul(dev(c, t), dev(c, t))
                    ELSE RDiv(RMul(dev(c, t), dev(c, t)), var(t))
    IN  [frame EXCEPT !.data = [c \in Range(frame.names) |->
            [t \in DOMAIN frame.index |->
                IF dev(c, t)[1] < 0 THEN <<-z2(c, t)[1], z2(c, t)[2]>> ELSE z2(c, t)]]]

\* the first table gives merged_data its index; every close column is then
\* aligned on that index
prepare_data(sd, prep) ==
    IF ~AllPreparable(sd) THEN Raised("ValueError")
    ELSE LET merged == Assemble(EmptyFrame, NamesOf(sd),
                                [i \in DOMAIN sd |-> Column(prep[i], "close")])
         IN  IF merged.status = "error" THEN merged
             ELSE Ok([raw    |-> ReturnsMatrix(merged.value),
                      scaled |-> Standardize(ReturnsMatrix(merged.value))])

---------------------------------------------------------------------------
(* The strong-pair report.  A matrix is [names, corr]: the instruments in  *)
(* row order and the coefficient of every ordered pair.                    *)

\* |coefficient| > 0.5, on signed squares: |c^2| > 1/4; never true of NaN
Threshold == <<1, 4>>

\* a test without the abs: coefficient < -0.5
strong_negative_only(c) == ~IsNaN(c) /\ RLess(c, <<-1, 4>>)

IsStrong(c) == ~IsNaN(c) /\ RLess(Threshold, RAbs(c))

\* for i in range(n): for j in range(i+1, n): the pairs in row-major order
RECURSIVE UpperPairs(_, _, _)
UpperPairs(n, i, j) ==
    IF i > n THEN <<>>
    ELSE IF j > n THEN UpperPairs(n, i + 1, i + 2)
    ELSE <<(<<i, j>>)>> \o UpperPairs(n, i, j + 1)

Pair(m, ij) ==
    [stock1 |-> m.names[ij[1]], stock2 |-> m.names[ij[2]],
     corr   |-> m.corr[m.names[ij[1]], m.names[ij[2]]]]

\* the loop that collects high_corr_pairs
high_corr_pairs(m) ==
    LET all == UpperPairs(Len(m.names), 1, 2)
    IN  SelectSeq([k \in DOMAIN all |-> Pair(m, all[k])], LAMBDA e : IsStrong(e.corr))

\* CorrelationAnalyzer: sort(key=lambda x: abs(x[2]), reverse=True)
ByAbsDescending(x, y) == RLess(RAbs(y.corr), RAbs(x.corr))

\* the order of Python strings on the instrument names
Alphabet == <<"A", "B", "C">>

Rank(name) == CHOOSE k \in DOMAIN Alphabet : Alphabet[k] = name

\* the script: sort(reverse=True) on the tuples (abs(corr), corr, stock1, stock2)
ByTupleDescending(x, y) ==
    \/ RLess(RAbs(y.corr), RAbs(x.corr))
    \/ /\ RAbs(y.corr) = RAbs(x.corr)
       /\ \/ RLess(y.corr, x.corr)
          \/ /\ y.corr = x.corr
             /\ \/ Rank(y.stock1) < Rank(x.stock1)
                \/ /\ y.stock1 = x.stock1
                   /\ Rank(y.stock2) < Rank(x.stock2)

Before(key, x, y) ==
    IF key = "abs" THEN ByAbsDescending(x, y) ELSE ByTupleDescending(x, y)

\* list.sort(reverse=True): x is put behind every element that does not
\* come after it, so elements that compare equal keep their order.  key
\* names the comparison: "abs" or "tuple".
RECURSIVE InsertSorted(_, _, _)
InsertSorted(sorted, x, key) ==
    IF sorted = <<>> THEN <<x>>
    ELSE IF Before(key, x, Head(sorted)) THEN <<x>> \o sorted
    ELSE <<Head(sorted)>> \o InsertSorted(Tail(sorted), x, key)

RECURSIVE SortBy(_, _)
SortBy(s, key) ==
    IF s = <<>> THEN <<>>
    ELSE InsertSorted(SortBy(SubSeq(s, 1, Len(s) - 1), key), s[Len(s)], key)

_print_correlation_analysis(m) == SortBy(high_corr_pairs(m), "abs")

\* the report of the script's analyze_correlation
analyze_correlation(m) == SortBy(high_corr_pairs(m), "tuple")

---------------------------------------------------------------------------
(* The raw price tables.                                                   *)

\* the volume traded on each day of the calendar
MarketVolume(d) == IF d = 20240130 THEN 1 ELSE 2

\* a table as pd.read_csv returns it: the rows are labelled 0, 1, 2, ...
RawTable(dates, closes, cols) ==
    [index |-> [i \in DOMAIN dates |-> i - 1],
     names |-> cols,
     data  |-> [c \in Range(cols) |->
                  IF c = "trade_date" THEN dates
                  ELSE IF c = "close" THEN [i \in DOMAIN dates |-> closes[i]]
                  ELSE [i \in DOMAIN dates |-> Num(MarketVolume(dates[i]))]]]

Ascending(dates) == \A i, j \in DOMAIN dates : i < j => dates[i] < dates[j]

Descending(dates) == \A i, j \in DOMAIN dates : i < j => dates[i] > dates[j]

\* one row per day, newest first (as the provider sends them) or oldest first
DateOrders == {d \in SeqsUpTo(RawDates, MaxRows) : Ascending(d) \/ Descending(d)}

AllColumns == <<"trade_date", "close", "vol">>

CompleteTables ==
    {RawTable(x[1], [i \in DOMAIN x[1] |-> Num(x[2][i])], AllColumns) :
        x \in {y \in DateOrders \X SeqsUpTo(Closes, MaxRows) : Len(y[1]) = Len(y[2])}}

\* the whole calendar, oldest day first
RECURSIVE SortedSeq(_)
SortedSeq(S) ==
    IF S = {} THEN <<>>
    ELSE LET m == CHOOSE x \in S : \A y \in S : x <= y
         IN  <<m>> \o SortedSeq(S \ {m})

\* tables that lack a column: the volume, the close or the date
DefectiveTables ==
    {RawTable(SortedSeq(RawDates), [i \in 1..Cardinality(RawDates) |-> Num(1)],
              Without(AllColumns, c)) : c \in Range(AllColumns)}

Tables == CompleteTables \cup DefectiveTables

StockNames == <<"A", "B">>

Files == {[i \in DOMAIN StockNames |-> [name |-> StockNames[i], df |-> t[i]]] :
            t \in [DOMAIN StockNames -> Tables]}

---------------------------------------------------------------------------
(* The analysis run of main().                                             *)

\* the operation that ran last, with its window (0 when it takes none)
Op(name, window) == [name |-> name, window |-> window]

Init ==
    /\ csv \in Files
    /\ stock_data = <<>>
    /\ op = Op("init", 0)
    /\ out = None
    /\ returns = <<>>
    /\ kmeans_models = <<>>
    /\ max_clusters = DefaultMaxClusters
    /\ collector = NoCall
    /\ matrix = <<>>

\* an analysis starts from the loaded dict
Loaded == op.name = "load"

LoadStockData ==
    /\ op.name = "init"
    /\ stock_data' \in load_stock_data(csv)
    /\ op' = Op("load", 0)
    /\ out' = None
    /\ returns' = <<>>
    /\ UNCHANGED <<csv, kmeans_models, max_clusters, matrix, collector>>

CalculateReturnsCorrelation ==
    /\ Loaded
    /\ op' = Op("correlation", 0)
    /\ out' = calculate_returns_correlation(stock_data)
    /\ returns' = IF out'.status = "ok"
                  THEN [i \in DOMAIN stock_data |->
                          Derived(stock_data[i].name, Column(stock_data[i].df, "close"),
                                  CorrelationReturns(stock_data[i].df))]
                  ELSE <<>>
    /\ stock_data' = AfterCorrelation(stock_data)
    /\ UNCHANGED <<csv, kmeans_models, max_clusters, matrix, collector>>

\* plot_correlation_heatmap ends with the strong-pair report of its matrix
PlotCorrelationHeatmap ==
    /\ op.name = "correlation"
    /\ out.status = "ok"
    /\ op' = Op("report", 0)
    /\ out' = Ok([names |-> out.value.names,
                  corr  |-> out.value.corr,
                  pairs |-> _print_correlation_analysis(out.value)])
    /\ UNCHANGED <<csv, stock_data, returns, kmeans_models, max_clusters, matrix, collector>>

\* the return series the operations that prepare their input derive
PreparedReturns(sd, prep) ==
    [i \in DOMAIN sd |->
        Derived(sd[i].name, Column(prep[i], "close"), _calculate_returns(prep[i]))]

ClusterPrepareData ==
    /\ Loaded
    /\ op' = Op("prepare_data", 0)
    /\ IF AllPreparable(stock_data)
       THEN \E prep \in PreparedChoices(stock_data) :
              /\ out' = prepare_data(stock_data, prep)
              /\ returns' = IF out'.status = "ok"
                            THEN [i \in DOMAIN stock_data |->
                                    Derived(stock_data[i].name, Column(prep[i], "close"),
                                            Column(out'.value.raw, stock_data[i].name))]
                            ELSE <<>>
              /\ stock_data' = AfterPrepare(stock_data, prep, prep)
       ELSE /\ out' = prepare_data(stock_data, <<>>)
            /\ returns' = <<>>
            /\ \E part \in PreparedChoices(Preparable(stock_data)) :
                  stock_data' = AfterPrepare(stock_data, part, part)
    /\ UNCHANGED <<csv, kmeans_models, max_clusters, matrix, collector>>

CalculateRollingCorrelation(window) ==
    /\ Loaded
    /\ op' = Op("rolling_correlation", window)
    /\ IF AllPreparable(stock_data)
       THEN \E prep \in PreparedChoices(stock_data) :
              /\ out' = calculate_rolling_correlation(stock_data, prep, window)
              /\ returns' = PreparedReturns(stock_data, prep)
              /\ stock_data' = AfterPrepare(stock_data, prep, prep)
       ELSE /\ out' = calculate_rolling_correlation(stock_data, <<>>, window)
            /\ returns' = <<>>
            /\ \E part \in PreparedChoices(Preparable(stock_data)) :
                  stock_data' = AfterPrepare(stock_data, part, part)
    /\ UNCHANGED <<csv, kmeans_models, max_clusters, matrix, collector>>

AnalyzeVolatility(window) ==
    /\ Loaded
    /\ op' = Op("volatility", window)
    /\ IF AllPreparable(stock_data)
       THEN \E prep \in PreparedChoices(stock_data) :
              /\ out' = analyze_volatility(stock_data, prep, window)
              /\ returns' = PreparedReturns(stock_data, prep)
              /\ stock_data' = AfterPrepare(stock_data, prep, prep)
       ELSE /\ out' = analyze_volatility(stock_data, <<>>, window)
            /\ returns' = <<>>
            /\ \E part \in PreparedChoices(Preparable(stock_data)) :
                  stock_data' = AfterPrepare(stock_data, part, part)
    /\ UNCHANGED <<csv, kmeans_models, max_clusters, matrix, collector>>

AnalyzeVolumePriceCorrelation(window) ==
    /\ Loaded
    /\ op' = Op("volume_price", window)
    /\ IF AllPreparable(stock_data)
       THEN \E prep \in PreparedChoices(stock_data) :
              /\ out' = analyze_volume_price_correlation(stock_data, prep, window)
              /\ returns' = PreparedReturns(stock_data, prep)
              /\ stock_data' = AfterPrepare(stock_data, prep, [i \in DOMAIN prep |-> AddVolume(prep[i])])
       ELSE /\ out' = analyze_volume_price_correlation(stock_data, <<>>, window)
            /\ returns' = <<>>
            /\ \E part \in PreparedChoices(Preparable(stock_data)) :
                  stock_data' = AfterPrepare(stock_data, part, [i \in DOMAIN part |-> AddVolume(part[i])])
    /\ UNCHANGED <<csv, kmeans_models, max_clusters, matrix, collector>>

Next ==
    \/ LoadStockData
    \/ CalculateReturnsCorrelation
    \/ PlotCorrelationHeatmap
    \/ ClusterPrepareData
    \/ \E window \in 1..MaxWindow : CalculateRollingCorrelation(window)
    \/ \E window \in 1..MaxWindow : AnalyzeVolatility(window)
    \/ \E window \in 1..MaxWindow : AnalyzeVolumePriceCorrelation(window)

Spec == Init /\ [][Next]_vars

---------------------------------------------------------------------------
(* Data preparation on its own: one raw table with its rows in any order,  *)
(* repeated dates and missing closes.                                      *)

MaybeCloses == {Num(c) : c \in Closes} \cup {NaN}

AnyTables ==
    {RawTable(x[1], x[2], x[3]) :
        x \in {y \in SeqsUpTo(RawDates, MaxRows) \X SeqsUpTo(MaybeCloses, MaxRows)
                       \X {AllColumns, Without(AllColumns, "vol")} :
                 Len(y[1]) = Len(y[2])}}
    \cup DefectiveTables

InitPrepare ==
    /\ csv = <<>>
    /\ stock_data \in {<<[name |-> StockNames[1], df |-> t]>> : t \in AnyTables}
    /\ op = Op("init", 0)
    /\ out = None
    /\ returns = <<>>
    /\ kmeans_models = <<>>
    /\ max_clusters = DefaultMaxClusters
    /\ collector = NoCall
    /\ matrix = <<>>

\* BaseAnalyzer._prepare_data(df)
PrepareData ==
    /\ op.name = "init"
    /\ op' = Op("_prepare_data", 0)
    /\ IF _prepare_data(stock_data[1].df) = {}
       THEN out' = Raised("ValueError") /\ UNCHANGED stock_data
       ELSE \E prepared \in _prepare_data(stock_data[1].df) :
              /\ out' = Ok(prepared)
              /\ stock_data' = <<[name |-> stock_data[1].name,
                                  df   |-> PrepareLeaves(stock_data[1].df, prepared)]>>
    /\ UNCHANGED <<csv, returns, kmeans_models, max_clusters, matrix, collector>>

\* BaseAnalyzer._calculate_returns on the prepared table
CalculateReturns ==
    /\ op.name = "_prepare_data"
    /\ out.status = "ok"
    /\ op' = Op("_calculate_returns", 0)
    /\ returns' = <<Derived(stock_data[1].name, Column(out.value, "close"),
                            _calculate_returns(out.value))>>
    /\ UNCHANGED <<csv, stock_data, out, kmeans_models, max_clusters, matrix, collector>>

NextPrepare == PrepareData \/ CalculateReturns

SpecPrepare == InitPrepare /\ [][NextPrepare]_vars

---------------------------------------------------------------------------
(* Rolling volatility on its own: one instrument, one row per day, with    *)
(* closes that can grow or fall at a constant rate.                        *)

GrowthCloses == {1, 2, 4}

GrowthTables ==
    {RawTable(SubSeq(SortedSeq(RawDates), 1, Len(closes)),
              [i \in DOMAIN closes |-> Num(closes[i])], AllColumns) :
        closes \in SeqsUpTo(GrowthCloses, IF MaxRows < Cardinality(RawDates)
                                         THEN MaxRows ELSE Cardinality(RawDates))}

InitVolatility ==
    /\ csv \in {<<[name |-> StockNames[1], df |-> t]>> : t \in GrowthTables}
    /\ stock_data \in load_stock_data(csv)
    /\ op = Op("load", 0)
    /\ out = None
    /\ returns = <<>>
    /\ kmeans_models = <<>>
    /\ max_clusters = DefaultMaxClusters
    /\ collector = NoCall
    /\ matrix = <<>>

NextVolatility == \E window \in 1..MaxWindow : AnalyzeVolatility(window)

SpecVolatility == InitVolatility /\ [][NextVolatility]_vars

---------------------------------------------------------------------------
(* The documented end-to-end scenario: three instruments with the closes   *)
(* 100..103, 50..47 and 10 (constant) on four consecutive dates, each file *)
(* with its rows in date order; the files in any dict order, the dates     *)
(* starting on any of three days, with or without a volume column.         *)

ScenarioCloses ==
    [A |-> <<100, 101, 102, 103>>, B |-> <<50, 49, 48, 47>>, C |-> <<10, 10, 10, 10>>]

ScenarioStarts == {20240129, 20240130, 20240131}

NextDay(d) ==
    IF d = 20240131 THEN 20240201 ELSE IF d = 20240229 THEN 20240301 ELSE d + 1

RECURSIVE DaysFrom(_, _)
DaysFrom(d, n) == IF n = 0 THEN <<>> ELSE <<d>> \o DaysFrom(NextDay(d), n - 1)

ScenarioFiles ==
    {[i \in DOMAIN Alphabet |->
        [name |-> Alphabet[p[i]],
         df   |-> RawTable(DaysFrom(start, Len(ScenarioCloses[Alphabet[p[i]]])),
                           [t \in DOMAIN ScenarioCloses[Alphabet[p[i]]] |->
                               Num(ScenarioCloses[Alphabet[p[i]]][t])],
                           cols)]] :
        p \in Perms(Len(Alphabet)), start \in ScenarioStarts,
        cols \in {AllColumns, Without(AllColumns, "vol")}}

InitScenario ==
    /\ csv \in ScenarioFiles
    /\ stock_data = <<>>
    /\ op = Op("init", 0)
    /\ out = None
    /\ returns = <<>>
    /\ kmeans_models = <<>>
    /\ max_clusters = DefaultMaxClusters
    /\ collector = NoCall
    /\ matrix = <<>>

NextScenario ==
    \/ LoadStockData
    \/ CalculateReturnsCorrelation
    \/ PlotCorrelationHeatmap

SpecScenario == InitScenario /\ [][NextScenario]_vars

---------------------------------------------------------------------------
(* The strong-pair report on its own: any symmetric matrix with a unit     *)
(* diagonal over three instruments.                                        *)

\* coefficients 0.8, 0.3, -0.6 (those of the documented example), -0.8, the
\* threshold 0.5 itself and the undefined value, as signed squares
Coefficients == {<<16, 25>>, <<9, 100>>, <<-9, 25>>, <<-16, 25>>, <<1, 4>>, NaN}

Matrices ==
    {[names |-> Alphabet,
      corr  |-> [a \in Range(Alphabet), b \in Range(Alphabet) |->
                   IF a = b THEN Num(1)
                   ELSE c[<<IF Rank(a) < Rank(b) THEN Rank(a) ELSE Rank(b),
                            IF Rank(a) < Rank(b) THEN Rank(b) ELSE Rank(a)>>]]] :
        c \in [Range(UpperPairs(Len(Alphabet), 1, 2)) -> Coefficients]}

InitPairs ==
    /\ matrix \in Matrices
    /\ csv = <<>>
    /\ stock_data = <<>>
    /\ op = Op("init", 0)
    /\ out = None
    /\ returns = <<>>
    /\ kmeans_models = <<>>
    /\ max_clusters = DefaultMaxClusters
    /\ collector = NoCall

\* CorrelationAnalyzer._print_correlation_analysis(correlation_matrix)
PrintCorrelationAnalysis ==
    /\ op' = Op("_print_correlation_analysis", 0)
    /\ out' = Ok(_print_correlation_analysis(matrix))
    /\ UNCHANGED <<csv, stock_data, returns, kmeans_models, max_clusters, matrix, collector>>

\* the report at the end of the script's analyze_correlation
ScriptReport ==
    /\ op' = Op("analyze_correlation", 0)
    /\ out' = Ok(analyze_correlation(matrix))
    /\ UNCHANGED <<csv, stock_data, returns, kmeans_models, max_clusters, matrix, collector>>

NextPairs == PrintCorrelationAnalysis \/ ScriptReport

SpecPairs == InitPairs /\ [][NextPairs]_vars

---------------------------------------------------------------------------
(* ClusterAnalyzer: the sweep and the clustering on one engine instance.   *)
(* A standardized matrix has one row per instrument; the model gives a     *)
(* row one feature.                                                        *)

\* the largest cluster count an engine is built with (max_clusters)
MaxClusters == 3
\* the most instruments (rows) in a matrix
MaxInstruments == 3

Features == {0, 1}

ScaledMatrices == UNION {[1..n -> Features] : n \in 2..MaxInstruments}

Power(x, p) == IF p = 0 THEN 1 ELSE IF p = 1 THEN x ELSE x * x

\* the sum of the p-th powers (p <= 2) of the first n rows that lie in
\* cluster c
RECURSIVE Moment(_, _, _, _, _)
Moment(X, labels, c, p, n) ==
    IF n = 0 THEN 0
    ELSE Moment(X, labels, c, p, n - 1) + (IF labels[n] = c THEN Power(X[n], p) ELSE 0)

RECURSIVE Factorial(_)
Factorial(n) == IF n = 0 THEN 1 ELSE n * Factorial(n - 1)

\* Factorial(Len(X)) times the sum of squared distances of the rows to the
\* centre of their cluster: a cluster of m rows contributes
\* sum(x^2) - sum(x)^2 / m
ScaledInertia(X, labels, k) ==
    LET n == Len(X)
        f == Factorial(n)
        OfCluster(c) ==
            LET m == Moment(X, labels, c, 0, n)
            IN  IF m = 0 THEN 0
                ELSE (f \div m) * (m * Moment(X, labels, c, 2, n)
                                     - Power(Moment(X, labels, c, 1, n), 2))
        Upto[c \in 0..k] == IF c = 0 THEN 0 ELSE Upto[c - 1] + OfCluster(c - 1)
    IN  Upto[k]

Inertia(X, labels, k) == Rat(ScaledInertia(X, labels, k), Factorial(Len(X)))

\* KMeans(n_clusters=k, random_state=42, n_init=10).fit(X).labels_: with the
\* seed fixed the labels are a function of X and k; the model takes the
\* labelling of least inertia
KMeansLabels(X, k) ==
    LET inertia == [labels \in [DOMAIN X -> 0..(k - 1)] |-> ScaledInertia(X, labels, k)]
    IN  CHOOSE labels \in DOMAIN inertia :
            \A other \in DOMAIN inertia : inertia[other] >= inertia[labels]

\* KMeans.fit raises ValueError when there are fewer rows than clusters
CanFit(X, k) == Len(X) >= k

\* silhouette_score raises ValueError unless 2 <= number of labels <= rows - 1
CanScore(X, labels) ==
    /\ Cardinality(Range(labels)) >= 2
    /\ Cardinality(Range(labels)) <= Len(X) - 1

\* the sum of the distances of row i to the first n rows that lie in cluster c
RECURSIVE DistSum(_, _, _, _, _)
DistSum(X, labels, c, i, n) ==
    IF n = 0 THEN 0
    ELSE DistSum(X, labels, c, i, n - 1) + (IF labels[n] = c THEN Abs(X[i] - X[n]) ELSE 0)

\* the silhouette coefficient of row i: (b - a) / max(a, b), a the mean
\* distance to the other rows of its cluster, b the least mean distance to
\* the rows of another cluster; 0 for a row alone in its cluster
SilhouetteOf(X, labels, i) ==
    LET n == Len(X)
        m == Moment(X, labels, labels[i], 0, n)
    IN  IF m = 1 THEN Num(0)
        ELSE LET a  == Rat(DistSum(X, labels, labels[i], i, n), m - 1)
                 bs == {Rat(DistSum(X, labels, c, i, n), Moment(X, labels, c, 0, n)) :
                           c \in Range(labels) \ {labels[i]}}
                 b  == CHOOSE x \in bs : \A y \in bs : ~RLess(y, x)
                 hi == IF RLess(a, b) THEN b ELSE a
             IN  IF hi = Num(0) THEN Num(0) ELSE RDiv(RSub(b, a), hi)

\* sklearn.metrics.silhouette_score: the mean coefficient over the rows
silhouette_score(X, labels) ==
    RDiv(RSum([i \in DOMAIN X |-> SilhouetteOf(X, labels, i)]), Num(Len(X)))

Model(X, k) ==
    LET labels == KMeansLabels(X, k)
    IN  [labels_ |-> labels, inertia_ |-> Inertia(X, labels, k)]

\* KMeans(...).fit(X) for every matrix and cluster count of the model: the
\* fit is a function of X and k
RECURSIVE Tabulate(_)
Tabulate(calls) ==
    IF calls = {} THEN <<>>
    ELSE LET call == CHOOSE c \in calls : TRUE
         IN  (call :> IF CanFit(call[1], call[2]) THEN Model(call[1], call[2]) ELSE None)
                @@ Tabulate(calls \ {call})

Fitted == Tabulate(ScaledMatrices \X (2..MaxClusters))

Fit(X, k) == Fitted[<<X, k>>]

\* the loop of find_optimal_clusters from k on: the cache as it leaves it
\* and whether the loop came to its end
RECURSIVE Sweep(_, _, _, _)
Sweep(X, k, kmax, models) ==
    IF k > kmax THEN [models |-> models, done |-> TRUE]
    ELSE IF ~CanFit(X, k) THEN [models |-> models, done |-> FALSE]
    ELSE LET cached == [j \in DOMAIN models \cup {k} |->
                          IF j = k THEN Fit(X, k) ELSE models[j]]
         IN  IF ~CanScore(X, cached[k].labels_) THEN [models |-> cached, done |-> FALSE]
             ELSE Sweep(X, k + 1, kmax, cached)

InitCluster ==
    /\ kmeans_models = <<>>
    /\ max_clusters \in 2..MaxClusters
    /\ collector = NoCall
    /\ csv = <<>>
    /\ stock_data = <<>>
    /\ op = Op("init", 0)
    /\ out = None
    /\ returns = <<>>
    /\ matrix = <<>>

\* the call of find_optimal_clusters: the matrix it was given and whether
\* the chart of _plot_evaluation_metrics could be drawn
SweepOp(data_scaled, renders) ==
    [name |-> "find_optimal_clusters", window |-> 0,
     data_scaled |-> data_scaled, renders |-> renders]

\* ClusterAnalyzer.find_optimal_clusters(data_scaled): the loop, then the
\* chart, then the two lists (entry i is for k = i + 1)
FindOptimalClusters(data_scaled, renders) ==
    LET swept == Sweep(data_scaled, 2, max_clusters, kmeans_models)
    IN  /\ op' = SweepOp(data_scaled, renders)
        /\ kmeans_models' = swept.models
        /\ out' = IF ~swept.done THEN Raised("ValueError")
                  ELSE IF ~renders THEN Raised("Exception")
                  ELSE Ok([inertias |->
                              [i \in 1..(max_clusters - 1) |-> swept.models[i + 1].inertia_],
                           silhouette_scores |->
                              [i \in 1..(max_clusters - 1) |->
                                  silhouette_score(data_scaled, swept.models[i + 1].labels_)]])
        /\ UNCHANGED <<csv, stock_data, returns, max_clusters, matrix, collector>>

\* no font: the analyzer labels its charts unstyled
NoFont == "none"

FontPaths == {NoFont, "font.ttf"}

\* BaseAnalyzer._init_font(font_path): loads tells whether FontProperties
\* accepts the file, has_logger whether self.logger is set when the handler
\* of line 48 uses it
_init_font(font_path, loads, has_logger) ==
    IF font_path = NoFont THEN Ok(NoFont)
    ELSE IF loads THEN Ok(font_path)
    ELSE IF ~has_logger THEN Raised("AttributeError")
    ELSE Ok(NoFont)

\* BaseAnalyzer.__init__(font_path): the font first, then the style (which
\* matplotlib may not know), and only then the logger
BaseAnalyzerInit(font_path, loads, style_found) ==
    LET font == _init_font(font_path, loads, FALSE)
    IN  IF font.status = "error" THEN font
        ELSE IF ~style_found THEN Raised("OSError")
        ELSE Ok([font |-> font.value])

InitOp(font_path, loads, style_found) ==
    [name |-> "__init__", window |-> 0,
     font_path |-> font_path, loads |-> loads, style_found |-> style_found]

\* ClusterAnalyzer.__init__(font_path, max_clusters): a new engine in place
\* of the old one, with an empty cache; when the constructor raises, the old
\* engine stays
Construct(font_path, loads, style_found) ==
    /\ op' = InitOp(font_path, loads, style_found)
    /\ out' = BaseAnalyzerInit(font_path, loads, style_found)
    /\ kmeans_models' = IF out'.status = "ok" THEN <<>> ELSE kmeans_models
    /\ UNCHANGED <<csv, stock_data, returns, max_clusters, matrix, collector>>

\* ClusterAnalyzer.perform_clustering(data_scaled, n_clusters)
PerformClustering(data_scaled, n_clusters) ==
    /\ op' = Op("perform_clustering", 0)
    /\ IF n_clusters \in DOMAIN kmeans_models
       THEN /\ out' = Ok([X |-> data_scaled, k |-> n_clusters,
                          clusters |-> kmeans_models[n_clusters].labels_])
            /\ UNCHANGED kmeans_models
       ELSE IF ~CanFit(data_scaled, n_clusters)
       THEN /\ out' = Raised("ValueError")
            /\ UNCHANGED kmeans_models
       ELSE /\ out' = Ok([X |-> data_scaled, k |-> n_clusters,
                          clusters |-> Fit(data_scaled, n_clusters).labels_])
            /\ kmeans_models' =
                  [j \in DOMAIN kmeans_models \cup {n_clusters} |->
                      IF j = n_clusters THEN Fit(data_scaled, n_clusters)
                      ELSE kmeans_models[j]]
    /\ UNCHANGED <<csv, stock_data, returns, max_clusters, matrix, collector>>

NextCluster ==
    \/ \E X \in ScaledMatrices : \E renders \in BOOLEAN : FindOptimalClusters(X, renders)
    \/ \E X \in ScaledMatrices : \E k \in 2..MaxClusters : PerformClustering(X, k)
    \/ \E font_path \in FontPaths : \E loads, style_found \in BOOLEAN :
          Construct(font_path, loads, style_found)

SpecCluster == InitCluster /\ [][NextCluster]_vars

---------------------------------------------------------------------------
(* DataCollector.collect_data and the retry loop it calls the provider     *)
(* through.  An attempt either returns a table (empty or not) or raises.   *)

\* DataCollector.__init__: self.retry_count = 3
RetryCount == 3
\* DataCollector.__init__: self.retry_delay = 2 (seconds)
RetryDelay == 2

Replies == {"empty", "rows"}

Exceptions == {"ConnectionError", "Timeout", "IOError"}

Returned(v) == [kind |-> "return", value |-> v]

Failed(e) == [kind |-> "raise", value |-> e]

Outcomes == {Returned(v) : v \in Replies} \cup {Failed(e) : e \in Exceptions}

\* a test that no attempt of the loop passes
never_last(attempt) == attempt = RetryCount

\* line 34: the attempt that failed was the last one
LastAttempt(attempt) == attempt = RetryCount - 1

InitRetry ==
    /\ collector = [pc |-> "try", attempt |-> 0, calls |-> <<>>, sleeps |-> <<>>,
                    result |-> None]
    /\ csv = <<>>
    /\ stock_data = <<>>
    /\ op = Op("init", 0)
    /\ out = None
    /\ returns = <<>>
    /\ kmeans_models = <<>>
    /\ max_clusters = DefaultMaxClusters
    /\ matrix = <<>>

Others == <<csv, stock_data, op, out, returns, kmeans_models, max_clusters, matrix>>

\* line 32: return operation(*args, **kwargs)
Attempt(outcome) ==
    /\ collector.pc = "try"
    /\ collector' = [collector EXCEPT
                        !.calls = Append(@, outcome),
                        !.pc = IF outcome.kind = "return" THEN "returned" ELSE "except",
                        !.result = IF outcome.kind = "return" THEN Ok(outcome.value)
                                   ELSE collector.result]
    /\ UNCHANGED Others

\* lines 33-36: the handler raises after the last attempt, else announces
\* the wait
Handle ==
    /\ collector.pc = "except"
    /\ collector' =
          IF LastAttempt(collector.attempt)
          THEN [collector EXCEPT
                   !.pc = "raised",
                   !.result = Raised(collector.calls[Len(collector.calls)].value)]
          ELSE [collector EXCEPT !.pc = "sleep"]
    /\ UNCHANGED Others

\* line 37 and the next turn of the loop of line 30; a loop that runs out
\* returns None
Sleep ==
    /\ collector.pc = "sleep"
    /\ collector' = [collector EXCEPT
                        !.sleeps = Append(@, [after |-> Len(collector.calls),
                                              seconds |-> RetryDelay]),
                        !.attempt = @ + 1,
                        !.pc = IF collector.attempt + 1 < RetryCount THEN "try"
                               ELSE "fell_through"]
    /\ UNCHANGED Others

\* collect_data, lines 95-108, once _retry_operation has come back: an
\* empty table and any exception give None
CollectData ==
    /\ collector.pc \in {"returned", "raised", "fell_through"}
    /\ collector' = [collector EXCEPT !.pc = "collected"]
    /\ out' = IF collector.pc = "returned" /\ collector.result.value = "rows"
              THEN Ok("rows with indicators")
              ELSE None
    /\ op' = Op("collect_data", 0)
    /\ UNCHANGED <<csv, stock_data, returns, kmeans_models, max_clusters, matrix>>

NextRetry ==
    \/ \E outcome \in Outcomes : Attempt(outcome)
    \/ Handle
    \/ Sleep
    \/ CollectData

SpecRetry == InitRetry /\ [][NextRetry]_vars

---------------------------------------------------------------------------
(* Claims.                                                                 *)

StrictlyAscending(s) == \A i, j \in DOMAIN s : i < j => s[i] < s[j]

PreparedOk == op.name = "_prepare_data" /\ out.status = "ok"

\* C1: the table _prepare_data returns for a raw table with the date and
\* close fields (rows in any order, dates possibly repeated) has a strictly
\* ascending date index, hence no duplicate date.
C1_IndexStrictlyAscending == PreparedOk => StrictlyAscending(out.value.index)


\* close[t] / close[t-1] - 1
Ratio(prices, t) == RSub(RDiv(prices[t], prices[t - 1]), Num(1))

\* N entries on the dates of the prices, 0 first, then the ratios
FullReturns(d) ==
    /\ d.series.index = d.prices.index
    /\ Len(d.series.values) = Len(d.prices.values)
    /\ \A t \in DOMAIN d.series.values :
          d.series.values[t] = IF t = 1 THEN Num(0) ELSE Ratio(d.prices.values, t)

\* the N-1 ratios on the rows after the first
TailReturns(d) ==
    /\ d.series.index = Tail(d.prices.index)
    /\ \A t \in DOMAIN d.series.values :
          d.series.values[t] = Ratio(d.prices.values, t + 1)

RollingOps == {"rolling_correlation", "volatility", "volume_price"}

DateOfLabel(df, l) ==
    df.data["trade_date"][CHOOSE i \in DOMAIN df.index : df.index[i] = l]

CorrelationOk == op.name \in {"correlation", "report"} /\ out.status = "ok"

\* C6: the static correlation aligns the return series by date: a return
\* of one instrument is paired only with the return of the other instrument
\* on the same date.
C6_PairedOnSameDate ==
    CorrelationOk =>
        \A a, b \in DOMAIN stock_data : \A r \in DOMAIN out.value.frame.index :
            LET l == out.value.frame.index[r]
                x == out.value.frame.data[stock_data[a].name][r]
                y == out.value.frame.data[stock_data[b].name][r]
            IN  ~IsNaN(x) /\ ~IsNaN(y) =>
                    DateOfLabel(stock_data[a].df, l) = DateOfLabel(stock_data[b].df, l)

\* an instrument with several observations and one closing price
ConstantClose(df) ==
    /\ Len(df.index) >= 2
    /\ \A i, j \in DOMAIN df.index : df.data["close"][i] = df.data["close"][j]

\* C7: for an instrument with a constant close, the correlation operation
\* signals an error or leaves every pair involving it out of its result: it
\* returns no coefficient, numeric or undefined, for such a pair, and the
\* strong-pair report lists no such pair.
C7_NoCoefficientForConstant ==
    CorrelationOk =>
        \A i, j \in DOMAIN stock_data :
            i # j /\ ConstantClose(stock_data[i].df) =>
                /\ <<stock_data[i].name, stock_data[j].name>> \notin DOMAIN out.value.corr
                /\ op.name = "report" =>
                      \A k \in DOMAIN out.value.pairs :
                          stock_data[i].name \notin
                              {out.value.pairs[k].stock1, out.value.pairs[k].stock2}

RollingDone == op.name \in RollingOps /\ out.status \in {"ok", "warned"}

\* C8 as stated: every column of a rolling result has no value in the rows
\* at positions 0 .. W-2 of the result's date index.
C8_FirstRowsUndefined ==
    RollingDone =>
        \A key \in DOMAIN out.value.data : \A t \in DOMAIN out.value.index :
            t < op.window => IsNaN(out.value.data[key][t])

\* the prices the operation read for the instrument called name
PricesOf(name) ==
    returns[CHOOSE i \in DOMAIN returns : returns[i].name = name].prices

\* C8 as amended: rolling correlation has no value in the rows at positions
\* 0 .. W-2 of the result's index; a column of rolling volatility or
\* volume-price correlation has a value only at a date that stands at
\* position W-1 or later in that instrument's own date index.
C8_FirstWindowUndefined ==
    RollingDone =>
        /\ op.name = "rolling_correlation" => C8_FirstRowsUndefined
        /\ op.name # "rolling_correlation" =>
              \A c \in Range(out.value.names) : \A t \in DOMAIN out.value.index :
                  ~IsNaN(out.value.data[c][t]) =>
                      \E q \in DOMAIN PricesOf(c).index :
                          /\ PricesOf(c).index[q] = out.value.index[t]
                          /\ q >= op.window

\* a rolling volatility with a window of two rows or more holds a value
C8_Witness ==
    /\ op.name = "volatility"
    /\ out.status = "ok"
    /\ op.window >= 2
    /\ \E c \in Range(out.value.names) : \E t \in DOMAIN out.value.index :
          ~IsNaN(out.value.data[c][t])

Rows(i) == Len(stock_data[i].df.index)

\* C9: a rolling operation fails when no instrument has at least `window`
\* observations, and returns a result when at least one instrument has.
C9_InsufficientDataSignalled ==
    op.name \in RollingOps =>
        /\ (\A i \in DOMAIN stock_data : Rows(i) < op.window) => out.status = "error"
        /\ (\E i \in DOMAIN stock_data : Rows(i) >= op.window) => out.status = "ok"

\* the instrument lacks a field the operation that ran needs
Lacks(df) ==
    \/ "close" \notin Range(df.names)
    \/ "trade_date" \notin Range(df.names)
    \/ op.name = "volume_price" /\ ~HasVolume(df)

\* C10: when one instrument of the batch lacks a needed field, the rolling
\* operation leaves it out and still returns the columns of every other
\* instrument.
C10_PartialResult ==
    ( /\ op.name \in RollingOps
      /\ \E i \in DOMAIN stock_data : Lacks(stock_data[i].df)
      /\ \E i \in DOMAIN stock_data : ~Lacks(stock_data[i].df) )
    => /\ out.status = "ok"
       /\ Range(out.value.names) =
             {stock_data[i].name : i \in {j \in DOMAIN stock_data : ~Lacks(stock_data[j].df)}}


Clustered == op.name = "perform_clustering" /\ out.status = "ok"

\* C3: after any sequence of sweeps and clusterings on one engine,
\* cluster(X, k) returns one label for each row of the X it was given, and
\* every label is an integer in [0, k).
C3_OneLabelPerRow ==
    Clustered =>
        /\ Len(out.value.clusters) = Len(out.value.X)
        /\ \A i \in DOMAIN out.value.clusters : out.value.clusters[i] \in 0..(out.value.k - 1)

\* C4: for a fixed X and k, cluster(X, k) returns the labels a freshly
\* constructed engine returns, whatever the engine has run before.
C4_SameLabelsAsFreshEngine ==
    Clustered => out.value.clusters = KMeansLabels(out.value.X, out.value.k)

Reported == op.name \in {"_print_correlation_analysis", "analyze_correlation"}

\* the position of the pair (stock1, stock2) in row-major order
RowMajor(e) == Rank(e.stock1) * Len(Alphabet) + Rank(e.stock2)

\* C5: the strong-pair report (of the analyzer and of the script) lists
\* each unordered pair of distinct instruments whose absolute coefficient
\* exceeds 0.5 exactly once and nothing else, by descending absolute
\* coefficient, pairs of equal absolute coefficient in row-major order.
C5_StrongPairsOrdered ==
    Reported =>
        /\ \A k \in DOMAIN out.value :
              /\ Rank(out.value[k].stock1) < Rank(out.value[k].stock2)
              /\ out.value[k].corr = matrix.corr[out.value[k].stock1, out.value[k].stock2]
              /\ IsStrong(out.value[k].corr)
        /\ \A a, b \in Range(Alphabet) :
              Rank(a) < Rank(b) /\ IsStrong(matrix.corr[a, b]) =>
                  Cardinality({k \in DOMAIN out.value :
                                 out.value[k].stock1 = a /\ out.value[k].stock2 = b}) = 1
        /\ \A k, l \in DOMAIN out.value :
              k < l =>
                  \/ RLess(RAbs(out.value[l].corr), RAbs(out.value[k].corr))
                  \/ /\ RAbs(out.value[l].corr) = RAbs(out.value[k].corr)
                     /\ RowMajor(out.value[k]) < RowMajor(out.value[l])


Swept == op.name = "find_optimal_clusters"

\* C11: the sweep over k in [2, k_max] fails exactly when the matrix has
\* fewer rows than k_max; with k_max rows or more (the chart drawn) it
\* returns one inertia and one silhouette value for every k from 2 to k_max.
C11_SweepFailsOnlyOnFewRows ==
    Swept /\ op.renders =>
        /\ out.status = "error" <=> Len(op.data_scaled) < max_clusters
        /\ out.status = "ok" =>
              /\ Len(out.value.inertias) = max_clusters - 1
              /\ Len(out.value.silhouette_scores) = max_clusters - 1
              /\ \A i \in 1..(max_clusters - 1) :
                    /\ ~IsNaN(out.value.inertias[i])
                    /\ ~IsNaN(out.value.silhouette_scores[i])


Prepared == op.name = "_prepare_data"

LacksRequired(df) == ~({"trade_date", "close"} \subseteq Range(df.names))

\* C12: _prepare_data fails with the error for a missing column, and returns
\* no prepared table, whenever the raw table lacks the date or the close
\* field; a table it returns has the close column of the raw table and its
\* dates as index, nothing made up in their place.
C12_SchemaError ==
    Prepared =>
        /\ LacksRequired(stock_data[1].df) => out = Raised("ValueError")
        /\ out.status = "ok" =>
              /\ ~LacksRequired(stock_data[1].df)
              /\ "close" \in Range(out.value.names)
              /\ Len(out.value.index) = Len(stock_data[1].df.index)

\* _prepare_data has refused a table without the close field
C12_Witness ==
    /\ Prepared
    /\ "close" \notin Range(stock_data[1].df.names)
    /\ out = Raised("ValueError")


\* the value forward fill owes row t of v: the latest valid value at or
\* before t, and none in a leading gap
LastValid(v, t) ==
    IF \A q \in 1..t : IsNaN(v[q]) THEN NaN
    ELSE v[CHOOSE q \in 1..t : ~IsNaN(v[q]) /\ \A r \in (q + 1)..t : IsNaN(v[r])]

\* the number of undefined values of v
Gaps(v) == Cardinality({t \in DOMAIN v : IsNaN(v[t])})

\* C13: in the prepared table the rows are the raw rows in ascending date
\* order, and every numeric column holds in each row the most recent valid
\* value of that column at or before the row: no value is missing after the
\* column's first valid observation, and a leading gap stays undefined.
C13_ForwardFilled ==
    Prepared /\ out.status = "ok" =>
        LET raw == stock_data[1].df
        IN  \E p \in Perms(Len(raw.index)) :
               /\ \A t \in DOMAIN raw.index :
                     out.value.index[t] = to_datetime(raw.data["trade_date"][p[t]])
               /\ \A t, u \in DOMAIN raw.index :
                     t < u => out.value.index[t] <= out.value.index[u]
               /\ \A c \in Range(out.value.names) : \A t \in DOMAIN raw.index :
                     /\ out.value.data[c][t] =
                           LastValid([q \in DOMAIN raw.index |-> raw.data[c][p[q]]], t)
                     /\ IsNaN(out.value.data[c][t]) =>
                           \A q \in 1..t : IsNaN(out.value.data[c][q])

\* a prepared close column in which a gap was filled and a leading gap kept
C13_Witness ==
    /\ Prepared
    /\ out.status = "ok"
    /\ Len(out.value.index) >= 3
    /\ IsNaN(out.value.data["close"][1])
    /\ Gaps(out.value.data["close"]) < Gaps(stock_data[1].df.data["close"])


AnalyzerOps == RollingOps \cup {"correlation", "report", "prepare_data"}

\* C14: after an analyzer operation (static correlation and its report,
\* clustering preparation, the three rolling operations), succeeded or
\* failed, every table of the caller's dict is one load_stock_data produced:
\* its columns, rows, row order and values are as before the call.  The
\* operations read nothing else of the state, so the same holds after any
\* sequence of them.
C14_InputsNotMutated ==
    op.name \in AnalyzerOps => stock_data \in load_stock_data(csv)

\* a rolling operation has worked on a prepared table in place (the volume
\* column was added) and returned
C14_Witness ==
    /\ op.name = "volume_price"
    /\ out.status = "ok"
    /\ \E i \in DOMAIN stock_data :
          /\ "vol" \in Range(stock_data[i].df.names)
          /\ "volume" \notin Range(stock_data[i].df.names)
          /\ stock_data[i].name \in Range(out.value.names)


Constructed == op.name = "__init__"

\* C15: a failure of the presentation layer aborts nothing: with a font that
\* does not load or a style that is not found the analyzer is still
\* constructed, a font that does not load leaving it with no font; and the
\* sweep does not fail because its chart could not be drawn.
C15_PresentationNeverAborts ==
    /\ Constructed =>
          /\ out.status = "ok"
          /\ op.font_path # NoFont /\ ~op.loads => out.value.font = NoFont
    /\ Swept /\ ~op.renders => out # Raised("Exception")


VolatilityDone == op.name = "volatility" /\ out.status = "ok"

\* the closes p change by the same ratio from each row to the next
ConstantRatio(p) ==
    /\ Len(p) >= 2
    /\ \A t, u \in 2..Len(p) : Ratio(p, t) = Ratio(p, u)

\* C16 as stated: for an instrument whose returns have a constant value r,
\* rolling volatility with window W is 0 in every row at position W-1 or
\* later.
C16_ZeroInEveryFullWindow ==
    VolatilityDone =>
        \A i \in DOMAIN returns :
            ConstantRatio(returns[i].prices.values) =>
                \A t \in DOMAIN returns[i].prices.values :
                    t >= op.window => out.value.data[returns[i].name][t] = Num(0)

\* C16 as amended: for closes that change by a constant ratio r, rolling
\* volatility with a window W of two rows or more is 0 in every row at
\* position W or later; in the row at position W-1, whose window holds the
\* first return (0 by convention), it is 0 exactly when r = 0; with W = 1 it
\* has no value in any row.
C16_ZeroPastFirstReturn ==
    VolatilityDone =>
        \A i \in DOMAIN returns :
            LET p   == returns[i].prices.values
                col == out.value.data[returns[i].name]
            IN  ConstantRatio(p) =>
                    \A t \in DOMAIN p :
                        /\ op.window = 1 => IsNaN(col[t])
                        /\ op.window >= 2 /\ t > op.window => col[t] = Num(0)
                        /\ op.window >= 2 /\ t = op.window =>
                              (col[t] = Num(0) <=> Ratio(p, 2) = Num(0))

\* closes growing at a constant rate, and a window past the first return
C16_Witness ==
    /\ VolatilityDone
    /\ op.window = 2
    /\ \E i \in DOMAIN returns :
          /\ ConstantRatio(returns[i].prices.values)
          /\ Len(returns[i].prices.values) = 3
          /\ Ratio(returns[i].prices.values, 2) # Num(0)
          /\ out.value.data[returns[i].name][3] = Num(0)


\* the pair of the first two instruments of the scenario, in either order
FirstTwo(e) == {e.stock1, e.stock2} = {"A", "B"}

Calling == collector.pc # "idle"

AllFailed(calls) == \A i \in DOMAIN calls : calls[i].kind = "raise"

\* _retry_operation has come back to its caller
BackFromRetry == collector.pc \in {"returned", "raised", "fell_through", "collected"}

\* C18: _retry_operation calls the operation at most retry_count (3) times
\* and never again after a success, whose result it returns; it waits only
\* between a failed attempt and the next one (never after the last); when
\* all retry_count attempts fail it raises the exception of the last; it
\* never returns normally without a successful attempt.
C18_AtMostRetryCountAttempts ==
    Calling =>
        /\ Len(collector.calls) <= RetryCount
        /\ AllFailed(SubSeq(collector.calls, 1, Len(collector.calls) - 1))
        /\ \A i \in DOMAIN collector.sleeps :
              /\ collector.sleeps[i].after = i
              /\ collector.calls[i].kind = "raise"
              /\ i < RetryCount
        /\ collector.pc = "try" => Len(collector.sleeps) = Len(collector.calls)
        /\ BackFromRetry => Len(collector.sleeps) = Len(collector.calls) - 1
        /\ collector.result.status = "ok" =>
              collector.calls[Len(collector.calls)] = Returned(collector.result.value)
        /\ collector.result.status = "error" =>
              /\ Len(collector.calls) = RetryCount
              /\ AllFailed(collector.calls)
              /\ collector.calls[RetryCount] = Failed(collector.result.error)
        /\ BackFromRetry => collector.result.status \in {"ok", "error"}
        /\ collector.pc # "fell_through"

\* three attempts have failed, with a wait after the first and the second,
\* and the exception of the third was raised
C18_Witness ==
    /\ collector.pc = "raised"
    /\ Len(collector.calls) = RetryCount
    /\ Len(collector.sleeps) = RetryCount - 1
    /\ collector.result = Raised(collector.calls[RetryCount].value)

============================================================================
